---- MODULE Spec2Model ----
(***************************************************************************)
(* Mini Sudoku (4x4): the constraint engine (is_valid, find_empty,         *)
(* solve_backtrack, count_solutions), the puzzle generator                    *)
(* (generate_full_solution, generate_puzzle) and the interactive session   *)
(* (play) of src/mini_sudoku.py.                                           *)
(*                                                                         *)
(* A board is a function [0..3 -> [0..3 -> 0..4]], indexed as the code     *)
(* indexes its list of lists; 0 is the empty cell.                         *)
(***************************************************************************)
EXTENDS Integers, Sequences, FiniteSets, TLC

Idx == 0 .. 3
Digits == 1 .. 4
None == <<>>

\* [[0] * 4 for _ in range(4)]
EmptyBoard == [i \in Idx |-> [j \in Idx |-> 0]]

\* board[r][c] = val, as an in-place assignment leaves the board
Put(b, r, c, val) == [b EXCEPT ![r][c] = val]

(***************************************************************************)
(* Constraint engine                                                       *)
(***************************************************************************)

\* the row and the column scans include the target cell (r, c) itself, and so
\* does the scan of the 2x2 box
is_valid(b, r, c, val) ==
    IF \E j \in Idx : b[r][j] = val THEN FALSE
    ELSE IF \E i \in Idx : b[i][c] = val THEN FALSE
    ELSE LET br == (r \div 2) * 2
             bc == (c \div 2) * 2
         IN  ~ \E i \in br .. br + 1 : \E j \in bc .. bc + 1 : b[i][j] = val

\* first empty cell in row-major order, or None
find_empty(b) ==
    IF \A i \in Idx : \A j \in Idx : b[i][j] # 0 THEN None
    ELSE LET k == CHOOSE n \in 0 .. 15 :
                      /\ b[n \div 4][n % 4] = 0
                      /\ \A m \in 0 .. n - 1 : b[m \div 4][m % 4] # 0
         IN  <<k \div 4, k % 4>>

RECURSIVE count_solutions(_, _)
RECURSIVE count_values(_, _, _, _, _, _)

\* count_values with the assignment "board[r][c] = 0" after the recursive
\* call left out
count_values_kept(b, r, c, val, total, limit) ==
    IF val > 4 THEN [ret |-> total, board |-> b]
    ELSE IF is_valid(b, r, c, val)
         THEN LET sub == count_solutions(Put(b, r, c, val), limit)
                  total2 == total + sub.ret
              IN  IF total2 >= limit
                  THEN [ret |-> total2, board |-> sub.board]
                  ELSE count_values(sub.board, r, c, val + 1, total2, limit)
         ELSE count_values(b, r, c, val + 1, total, limit)

\* the loop "for val in [1, 2, 3, 4]" of count_solutions from candidate val on,
\* with the running total; the result carries the board as the loop leaves it
count_values(b, r, c, val, total, limit) ==
    IF val > 4 THEN [ret |-> total, board |-> b]
    ELSE IF is_valid(b, r, c, val)
         THEN LET sub == count_solutions(Put(b, r, c, val), limit)
                  total2 == total + sub.ret
                  board2 == Put(sub.board, r, c, 0)
              IN  IF total2 >= limit
                  THEN [ret |-> total2, board |-> board2]
                  ELSE count_values(board2, r, c, val + 1, total2, limit)
         ELSE count_values(b, r, c, val + 1, total, limit)

\* count_solutions(board, limit): the returned total and the board after the call
count_solutions(b, limit) ==
    LET empty == find_empty(b)
    IN  IF empty = None THEN [ret |-> 1, board |-> b]
        ELSE count_values(b, empty[1], empty[2], 1, 0, limit)

\* the orders random.shuffle(nums) can leave nums = [1, 2, 3, 4] in: all 24
NumsOrders == {p \in [1 .. 4 -> Digits] : \A a, b \in 1 .. 4 : a # b => p[a] # p[b]}

RECURSIVE solve_backtrack(_, _)
RECURSIVE solve_values(_, _, _, _, _, _, _, _)

\* solve_values returning False as soon as one candidate it placed has
\* failed, instead of going on to the next candidate
solve_values_first(b, r, c, nums, k, shuffles, entry, placed) ==
    IF k > 4 THEN {[ret |-> FALSE, board |-> b]}
    ELSE LET val == nums[k]
         IN  IF is_valid(b, r, c, val)
             THEN LET subs == IF b = entry THEN placed[val]
                              ELSE solve_backtrack(Put(b, r, c, val), shuffles)
                  IN  {o \in subs : o.ret}
                      \cup {[ret |-> FALSE, board |-> Put(o.board, r, c, 0)]
                            : o \in {x \in subs : ~ x.ret}}
             ELSE solve_values(b, r, c, nums, k + 1, shuffles, entry, placed)

\* the loop "for val in nums" of solve_backtrack from position k of nums on.
\* The result is the set of outcomes [ret, board] the call can end with, one
\* for each way the shuffles of the calls below can fall. entry is the board
\* the loop was entered with and placed[val] the outcomes of placing val on
\* it and recursing: the same value as the recursive call whenever the loop's
\* board is still entry, computed once for all the orders of nums.
solve_values(b, r, c, nums, k, shuffles, entry, placed) ==
    IF k > 4 THEN {[ret |-> FALSE, board |-> b]}
    ELSE LET val == nums[k]
         IN  IF is_valid(b, r, c, val)
             THEN LET subs == IF b = entry THEN placed[val]
                              ELSE solve_backtrack(Put(b, r, c, val), shuffles)
                  IN  {o \in subs : o.ret}
                      \cup UNION {solve_values(Put(o.board, r, c, 0), r, c, nums,
                                               k + 1, shuffles, entry, placed)
                                  : o \in {x \in subs : ~ x.ret}}
             ELSE solve_values(b, r, c, nums, k + 1, shuffles, entry, placed)

\* solve_backtrack(board) with random.shuffle(nums) drawing from shuffles: the
\* set of outcomes [ret |-> returned value, board |-> the board after the call]
solve_backtrack(b, shuffles) ==
    LET empty == find_empty(b)
    IN  IF empty = None THEN {[ret |-> TRUE, board |-> b]}
        ELSE LET r == empty[1]
                 c == empty[2]
                 placed == <<IF is_valid(b, r, c, 1)
                             THEN solve_backtrack(Put(b, r, c, 1), shuffles) ELSE {},
                             IF is_valid(b, r, c, 2)
                             THEN solve_backtrack(Put(b, r, c, 2), shuffles) ELSE {},
                             IF is_valid(b, r, c, 3)
                             THEN solve_backtrack(Put(b, r, c, 3), shuffles) ELSE {},
                             IF is_valid(b, r, c, 4)
                             THEN solve_backtrack(Put(b, r, c, 4), shuffles) ELSE {}>>
             IN  UNION {solve_values(b, r, c, nums, 1, shuffles, b, placed)
                        : nums \in shuffles}

(***************************************************************************)
(* Puzzle generator                                                        *)
(***************************************************************************)

\* How many outcomes of random.shuffle(nums) the generator and the session
\* are followed through (the engine's own checks take all of NumsOrders)
MaxNumsShuffle == 1
\* How many outcomes of random.shuffle(cells) are followed through where the
\* whole of generate_puzzle is one step
MaxCellShuffle == 64
\* The outcomes of random.shuffle(cells) followed are those numbered 0,
\* ShuffleStride, 2 * ShuffleStride, ...: orders that differ in many places
ShuffleStride == 1000003

\* the boards generate_full_solution can return
generate_full_solution(shuffles) ==
    {o.board : o \in solve_backtrack(EmptyBoard, shuffles)}

\* cells = [(i, j) for i in range(4) for j in range(4)]
AllCells == [n \in 1 .. 16 |-> <<(n - 1) \div 4, (n - 1) % 4>>]

RECURSIVE KthOrder(_, _)
\* random.shuffle(items): its k-th outcome, the permutations numbered by the
\* element that comes first, then by the one that comes second, ...
KthOrder(items, k) ==
    IF items = <<>> THEN <<>>
    ELSE LET n == Len(items)
             d == (k % n) + 1
         IN  <<items[d]>> \o KthOrder(SubSeq(items, 1, d - 1) \o SubSeq(items, d + 1, n),
                                      k \div n)

\* remove_cell keeping every removal that leaves the puzzle solvable
\* ("if sols == 0" for "if sols != 1")
remove_cell_solvable(p, n, i, j) ==
    LET temp == p[i][j]
        p1 == Put(p, i, j, 0)
        sols == count_solutions(p1, 2).ret
    IN  IF sols = 0
        THEN [puzzle |-> Put(p1, i, j, temp), removed |-> n]
        ELSE [puzzle |-> p1, removed |-> n + 1]

\* remove_cell counting the cell as removed whether or not it was put back
remove_cell_counted(p, n, i, j) ==
    LET temp == p[i][j]
        p1 == Put(p, i, j, 0)
        sols == count_solutions(p1, 2).ret
    IN  IF sols # 1
        THEN [puzzle |-> Put(p1, i, j, temp), removed |-> n + 1]
        ELSE [puzzle |-> p1, removed |-> n + 1]

\* the body of the removal loop for cell (i, j): the puzzle and the count of
\* removals after it
remove_cell(p, n, i, j) ==
    LET temp == p[i][j]
        p1 == Put(p, i, j, 0)
        test == p1
        sols == count_solutions(test, 2).ret
    IN  IF sols # 1
        THEN [puzzle |-> Put(p1, i, j, temp), removed |-> n]
        ELSE [puzzle |-> p1, removed |-> n + 1]

RECURSIVE remove_cells(_, _, _, _, _)
\* the loop "for (i, j) in cells" from position k of cells on
remove_cells(p, n, cs, k, want) ==
    IF k > Len(cs) \/ n >= want THEN p
    ELSE LET step == remove_cell(p, n, cs[k][1], cs[k][2])
         IN  remove_cells(step.puzzle, step.removed, cs, k + 1, want)

\* generate_puzzle with "puzzle = solution" for "puzzle = copy.deepcopy(solution)":
\* the two names share one board
generate_puzzle_shared(want, s, cs) ==
    LET p == remove_cells(s, 0, cs, 1, want)
    IN  [puzzle |-> p, solution |-> p]

\* generate_puzzle(removals), given the board generate_full_solution returned
\* and the order random.shuffle left cells in
generate_puzzle(want, s, cs) ==
    [puzzle |-> remove_cells(s, 0, cs, 1, want), solution |-> s]

board_complete(b) == \A i \in Idx : \A j \in Idx : b[i][j] # 0

\* no value occurs twice in a row, a column or a 2x2 box (zeros ignored)
board_valid(b) ==
    /\ \A i \in Idx : \A j1, j2 \in Idx :
          (j1 < j2 /\ b[i][j1] # 0) => b[i][j1] # b[i][j2]
    /\ \A j \in Idx : \A i1, i2 \in Idx :
          (i1 < i2 /\ b[i1][j] # 0) => b[i1][j] # b[i2][j]
    /\ \A br \in {0, 2} : \A bc \in {0, 2} :
          \A i1, i2 \in br .. br + 1 : \A j1, j2 \in bc .. bc + 1 :
             (<<i1, j1>> # <<i2, j2>> /\ b[i1][j1] # 0)
                => b[i1][j1] # b[i2][j2]


(***************************************************************************)
(* State                                                                   *)
(***************************************************************************)
VARIABLES
    grid,         \* engine calls: the board handed to the call
    call,         \* engine calls: the call made, <<name, arguments ...>>
    ret,          \* engine calls: the value returned
    after,        \* engine calls: the grid as the call leaves it
    pc,           \* generate_puzzle: where it stands
    removals,     \* generate_puzzle: its argument
    cells,        \* generate_puzzle: the cells the loop has still to visit
    removed,      \* generate_puzzle: its counter
    puzzle,       \* generate_puzzle, play: the puzzle grid
    solution,     \* generate_puzzle, play: the solved grid
    start_state,  \* play
    current,      \* play
    cmd,          \* play: the command read last
    out           \* play: what the command printed

engineVars == <<grid, call, ret, after>>
genVars == <<pc, removals, cells, removed>>
puzzleVars == <<puzzle, solution>>
playVars == <<start_state, current, cmd, out>>
vars == <<grid, call, ret, after, pc, removals, cells, removed, puzzle, solution,
          start_state, current, cmd, out>>

\* the parts of the state a specification does not use stay as they are here
EngineIdle == grid = EmptyBoard /\ call = <<"none">> /\ ret = None /\ after = EmptyBoard
GenIdle == pc = "idle" /\ removals = 0 /\ cells = <<>> /\ removed = 0
PuzzleIdle == puzzle = EmptyBoard /\ solution = EmptyBoard
PlayIdle == start_state = EmptyBoard /\ current = EmptyBoard /\ cmd = "none" /\ out = ""

\* the outcomes of the two shuffles that are followed through
NumsShuffles == {KthOrder(<<1, 2, 3, 4>>, k) : k \in 0 .. MaxNumsShuffle - 1}
CellShuffles == {KthOrder(AllCells, k * ShuffleStride) : k \in 0 .. MaxCellShuffle - 1}

\* the boards generate_full_solution returns under NumsShuffles
Solutions == generate_full_solution(NumsShuffles)

Empties(b) == Cardinality({k \in 0 .. 15 : b[k \div 4][k % 4] = 0})

(***************************************************************************)
(* The engine, one call at a time                                          *)
(***************************************************************************)

\* The boards the engine is called on: the all-empty grid, the solved grid
\* of the specification's scenario, a grid of six clues with four
\* completions, and every grid one cell away from the last two.
ScenarioBoard ==
    [i \in Idx |-> [j \in Idx |-> <<<<1, 2, 3, 4>>, <<3, 4, 1, 2>>,
                                    <<2, 1, 4, 3>>, <<4, 3, 2, 1>>>>[i + 1][j + 1]]]
SixClueBoard ==
    [i \in Idx |-> [j \in Idx |-> <<<<0, 2, 0, 0>>, <<0, 0, 0, 2>>,
                                    <<2, 0, 0, 3>>, <<0, 3, 2, 0>>>>[i + 1][j + 1]]]
EngineBoards ==
    {EmptyBoard, ScenarioBoard, SixClueBoard}
    \cup {Put(b, i, j, v) : b \in {ScenarioBoard, SixClueBoard},
                            i \in Idx, j \in Idx, v \in 0 .. 4}

\* the largest limit count_solutions is called with
MaxLimit == 3

InitEngine ==
    /\ grid \in EngineBoards
    /\ call = <<"none">> /\ ret = None /\ after = grid
    /\ GenIdle /\ PuzzleIdle /\ PlayIdle

CallIsValid(r, c, val) ==
    /\ call = <<"none">>
    /\ call' = <<"is_valid", r, c, val>>
    /\ ret' = is_valid(grid, r, c, val)
    /\ after' = grid
    /\ UNCHANGED <<grid, genVars, puzzleVars, playVars>>

CallSolveBacktrack ==
    /\ call = <<"none">>
    /\ \E o \in solve_backtrack(grid, NumsOrders) :
          /\ call' = <<"solve_backtrack">>
          /\ ret' = o.ret
          /\ after' = o.board
    /\ UNCHANGED <<grid, genVars, puzzleVars, playVars>>

CallCountSolutions(limit) ==
    /\ call = <<"none">>
    /\ LET o == count_solutions(grid, limit)
       IN  /\ call' = <<"count_solutions", limit>>
           /\ ret' = o.ret
           /\ after' = o.board
    /\ UNCHANGED <<grid, genVars, puzzleVars, playVars>>

NextEngine ==
    \/ \E r \in Idx, c \in Idx, val \in Digits : CallIsValid(r, c, val)
    \/ CallSolveBacktrack
    \/ \E limit \in 1 .. MaxLimit : CallCountSolutions(limit)

SpecEngine == InitEngine /\ [][NextEngine]_vars

(***************************************************************************)
(* generate_puzzle as one step, for every removals; and a call of          *)
(* generate_full_solution on its own, for every order of the candidates    *)
(***************************************************************************)

\* the boards generate_full_solution returns, whatever the shuffles
FullSolutions == generate_full_solution(NumsOrders)

InitGenAny ==
    /\ pc = "start" /\ removals \in 0 .. Len(AllCells)
    /\ cells = <<>> /\ removed = 0
    /\ PuzzleIdle /\ EngineIdle /\ PlayIdle

GeneratePuzzle ==
    /\ pc = "start"
    /\ \E s \in Solutions, order \in CellShuffles :
          \E gen \in {generate_puzzle(removals, s, order)} :
              /\ puzzle' = gen.puzzle
              /\ solution' = gen.solution
              /\ cells' = order
              /\ removed' = Empties(gen.puzzle)
    /\ pc' = "done"
    /\ UNCHANGED <<removals, engineVars, playVars>>

\* board = generate_full_solution(), the board kept in solution
CallGenerateFullSolution ==
    /\ pc = "start"
    /\ \E s \in FullSolutions : solution' = s
    /\ pc' = "full"
    /\ UNCHANGED <<removals, cells, removed, puzzle, engineVars, playVars>>

NextGenAny == GeneratePuzzle \/ CallGenerateFullSolution

SpecGenAny == InitGenAny /\ [][NextGenAny]_vars

(***************************************************************************)
(* generate_puzzle(removals=6) step by step, for every order of cells      *)
(***************************************************************************)

\* puzzle, solution = generate_puzzle(removals=6)
SessionRemovals == 6

InitGen ==
    /\ pc = "start" /\ removals = SessionRemovals
    /\ cells = <<>> /\ removed = 0
    /\ PuzzleIdle /\ EngineIdle /\ PlayIdle

\* solution, puzzle, cells and removed are set up. random.shuffle(cells) is
\* not drawn here: GenLoop draws the order one cell at a time.
GenStart ==
    /\ pc = "start"
    /\ \E s \in Solutions : solution' = s /\ puzzle' = s
    /\ cells' = AllCells
    /\ removed' = 0
    /\ pc' = "loop"
    /\ UNCHANGED <<removals, engineVars, playVars>>

\* one iteration of the loop: the cell that comes next in the shuffled order
\* is any cell not yet visited
GenLoop ==
    /\ pc = "loop" /\ cells # <<>> /\ removed < removals
    /\ \E d \in 1 .. Len(cells) :
          \E step \in {remove_cell(puzzle, removed, cells[d][1], cells[d][2])} :
              /\ puzzle' = step.puzzle
              /\ removed' = step.removed
              /\ cells' = SubSeq(cells, 1, d - 1) \o SubSeq(cells, d + 1, Len(cells))
    /\ UNCHANGED <<pc, removals, solution, engineVars, playVars>>

\* the loop ends, by its break or by running out of cells
GenReturn ==
    /\ pc = "loop" /\ (cells = <<>> \/ removed >= removals)
    /\ pc' = "done"
    /\ UNCHANGED <<removals, cells, removed, puzzleVars, engineVars, playVars>>

NextGen == GenStart \/ GenLoop \/ GenReturn

SpecGen == InitGen /\ [][NextGen]_vars

(***************************************************************************)
(* play: the interactive session, one command at a time                    *)
(***************************************************************************)

\* How many outcomes of random.shuffle(cells) the session draws its puzzles
\* from
MaxSessionShuffle == 4

\* what generate_puzzle(removals=6) returns under the shuffles followed
Puzzles ==
    {generate_puzzle(SessionRemovals, s, KthOrder(AllCells, k * ShuffleStride))
     : s \in Solutions, k \in 0 .. MaxSessionShuffle - 1}

\* the numbers a move is typed with run from 0 to MaxArg
MaxArg == 5

\* the test that prints the congratulation at the top of the loop
Won == board_complete(current) /\ current = solution

InitPlay ==
    /\ \E gen \in Puzzles :
          /\ puzzle = gen.puzzle /\ solution = gen.solution
          /\ start_state = gen.puzzle /\ current = gen.puzzle
    /\ cmd = "start" /\ out = ""
    /\ EngineIdle /\ GenIdle

Quit ==
    /\ cmd # "quit"
    /\ cmd' = "quit" /\ out' = "Goodbye!"
    /\ UNCHANGED <<puzzleVars, start_state, current, engineVars, genVars>>

Help ==
    /\ cmd # "quit"
    /\ cmd' = "help" /\ out' = "Commands:"
    /\ UNCHANGED <<puzzleVars, start_state, current, engineVars, genVars>>

New ==
    /\ cmd # "quit"
    /\ \E gen \in Puzzles :
          /\ puzzle' = gen.puzzle /\ solution' = gen.solution
          /\ start_state' = gen.puzzle /\ current' = gen.puzzle
    /\ cmd' = "new" /\ out' = "New puzzle generated."
    /\ UNCHANGED <<engineVars, genVars>>

Reset ==
    /\ cmd # "quit"
    /\ current' = start_state
    /\ cmd' = "reset" /\ out' = "Board reset to the starting puzzle."
    /\ UNCHANGED <<puzzleVars, start_state, engineVars, genVars>>

Check ==
    /\ cmd # "quit"
    /\ cmd' = "check"
    /\ out' = IF board_valid(current) THEN "Board is valid."
              ELSE "There are rule violations."
    /\ UNCHANGED <<puzzleVars, start_state, current, engineVars, genVars>>

Solve ==
    /\ cmd # "quit"
    /\ current' = solution
    /\ cmd' = "solve" /\ out' = "Here is the solved board."
    /\ UNCHANGED <<puzzleVars, start_state, engineVars, genVars>>

Hint ==
    /\ cmd # "quit"
    /\ cmd' = "hint"
    /\ LET empties == {e \in Idx \X Idx : current[e[1]][e[2]] = 0}
       IN  IF empties = {}
           THEN /\ out' = "No empty cells to hint."
                /\ UNCHANGED current
           ELSE \E e \in empties :
                   /\ current' = Put(current, e[1], e[2], solution[e[1]][e[2]])
                   /\ out' = "Hint: Filled"
    /\ UNCHANGED <<puzzleVars, start_state, engineVars, genVars>>

\* Move without the test "if start_state[r-1][c-1] != 0"
MoveAnyCell(r, c, v) ==
    /\ cmd # "quit"
    /\ cmd' = "move"
    /\ IF ~ (1 <= r /\ r <= 4 /\ 1 <= c /\ c <= 4 /\ 1 <= v /\ v <= 4)
       THEN /\ out' = "Rows, columns, and values must be 1-4."
            /\ UNCHANGED current
       ELSE IF is_valid(current, r - 1, c - 1, v)
       THEN /\ current' = Put(current, r - 1, c - 1, v)
            /\ out' = ""
       ELSE /\ out' = "Invalid move: violates Sudoku rules."
            /\ UNCHANGED current
    /\ UNCHANGED <<puzzleVars, start_state, engineVars, genVars>>

\* Move without the test "if is_valid(current, r-1, c-1, v)"
MoveUnchecked(r, c, v) ==
    /\ cmd # "quit"
    /\ cmd' = "move"
    /\ IF ~ (1 <= r /\ r <= 4 /\ 1 <= c /\ c <= 4 /\ 1 <= v /\ v <= 4)
       THEN /\ out' = "Rows, columns, and values must be 1-4."
            /\ UNCHANGED current
       ELSE IF start_state[r - 1][c - 1] # 0
       THEN /\ out' = "That cell is fixed in the puzzle and cannot be changed."
            /\ UNCHANGED current
       ELSE /\ current' = Put(current, r - 1, c - 1, v)
            /\ out' = ""
    /\ UNCHANGED <<puzzleVars, start_state, engineVars, genVars>>

\* the command "r c v", three numbers
Move(r, c, v) ==
    /\ cmd # "quit"
    /\ cmd' = "move"
    /\ IF ~ (1 <= r /\ r <= 4 /\ 1 <= c /\ c <= 4 /\ 1 <= v /\ v <= 4)
       THEN /\ out' = "Rows, columns, and values must be 1-4."
            /\ UNCHANGED current
       ELSE IF start_state[r - 1][c - 1] # 0
       THEN /\ out' = "That cell is fixed in the puzzle and cannot be changed."
            /\ UNCHANGED current
       ELSE IF is_valid(current, r - 1, c - 1, v)
       THEN /\ current' = Put(current, r - 1, c - 1, v)
            /\ out' = ""
       ELSE /\ out' = "Invalid move: violates Sudoku rules."
            /\ UNCHANGED current
    /\ UNCHANGED <<puzzleVars, start_state, engineVars, genVars>>

Unrecognized ==
    /\ cmd # "quit"
    /\ cmd' = "other" /\ out' = "Unrecognized command. Type 'help' for options."
    /\ UNCHANGED <<puzzleVars, start_state, current, engineVars, genVars>>

NextPlay ==
    \/ Quit \/ Help \/ New \/ Reset \/ Check \/ Solve \/ Hint
    \/ \E r \in 0 .. MaxArg, c \in 0 .. MaxArg, v \in 0 .. MaxArg : Move(r, c, v)
    \/ Unrecognized

SpecPlay == InitPlay /\ [][NextPlay]_vars

(***************************************************************************)
(* Properties                                                              *)
(***************************************************************************)

\* the rows that hold each of 1..4 once
RowPerms == {p \in [Idx -> Digits] : \A a, c \in Idx : a # c => p[a] # p[c]}

\* two rows, one above the other, with no value twice in a 2x2 box
BandOK(r1, r2) ==
    /\ {r1[0], r1[1]} \cap {r2[0], r2[1]} = {}
    /\ {r1[2], r1[3]} \cap {r2[2], r2[3]} = {}

Bands == {h \in RowPerms \X RowPerms : BandOK(h[1], h[2])}

\* every completely filled board that meets the row, column and box
\* constraints, built from the constraints alone (there are 288)
SolvedBoards ==
    {[i \in Idx |-> IF i = 0 THEN x[1][1] ELSE IF i = 1 THEN x[1][2]
                    ELSE IF i = 2 THEN x[2][1] ELSE x[2][2]]
     : x \in {y \in Bands \X Bands :
                 \A j \in Idx : Cardinality({y[1][1][j], y[1][2][j],
                                             y[2][1][j], y[2][2][j]}) = 4}}

\* the valid completions of a board: the solved boards that keep its filled cells
Completions(b) ==
    {s \in SolvedBoards : \A i, j \in Idx : b[i][j] # 0 => s[i][j] = b[i][j]}

\* no cell other than (r, c) in row r, column c or the box of (r, c) holds v
NoOtherCellHolds(b, r, c, v) ==
    /\ \A j \in Idx \ {c} : b[r][j] # v
    /\ \A i \in Idx \ {r} : b[i][c] # v
    /\ \A i \in (r \div 2) * 2 .. (r \div 2) * 2 + 1 :
          \A j \in (c \div 2) * 2 .. (c \div 2) * 2 + 1 :
             <<i, j>> # <<r, c>> => b[i][j] # v

\* C1: whatever solved grid and removal order generate_puzzle drew and
\* whatever removals it was given (0..16), the puzzle it returns has exactly
\* one valid completion, that completion is the solution it returns, and
\* count_solutions on the puzzle with limit 2 returns 1.
C1_UniqueCompletion ==
    pc = "done" =>
        /\ Completions(puzzle) = {solution}
        /\ count_solutions(puzzle, 2).ret = 1

\* generate_puzzle was asked for more removals than it could make and had to
\* put cells back, having emptied at least eight
C1_Witness ==
    /\ pc = "done"
    /\ removals > removed
    /\ removed >= 8
    /\ Completions(puzzle) = {solution}

\* C2: for every order of the candidate values generate_full_solution returns
\* a complete, board_valid grid; and the solution generate_puzzle returns is
\* complete, board_valid and equal to the puzzle on every non-empty cell of
\* the puzzle.
C2_SolutionSolved ==
    /\ pc = "full" =>
          /\ board_complete(solution) /\ board_valid(solution)
          /\ solution \in SolvedBoards
    /\ pc = "done" =>
          /\ board_complete(solution) /\ board_valid(solution)
          /\ solution \in SolvedBoards
          /\ \A i, j \in Idx : puzzle[i][j] # 0 => solution[i][j] = puzzle[i][j]

\* a puzzle with six cells emptied, returned next to its full solution
C2_Witness ==
    /\ pc = "done"
    /\ Empties(puzzle) = 6
    /\ Empties(solution) = 0
    /\ puzzle # solution

\* C3: count_solutions never returns more than limit, and with limit 2 on a
\* grid whose filled cells break no rule and that has at least two valid
\* completions it returns exactly 2.
C3_CountCappedAtLimit ==
    call[1] = "count_solutions" =>
        /\ ret <= call[2]
        /\ (call[2] = 2 /\ board_valid(grid) /\ Cardinality(Completions(grid)) >= 2)
              => ret = 2

\* C4: when solve_backtrack returns False the grid is as it was before the
\* call, and when count_solutions returns (for any limit >= 1, its early exit
\* included) the grid is as it was before the call.
C4_Restored ==
    /\ (call[1] = "solve_backtrack" /\ ret = FALSE) => after = grid
    /\ call[1] = "count_solutions" => after = grid

\* solve_backtrack gave up on a grid without rule violations on which it had
\* a candidate to place in the first empty cell, so it placed and took back
C4_Witness ==
    /\ call[1] = "solve_backtrack" /\ ret = FALSE
    /\ board_valid(grid)
    /\ find_empty(grid) # None
    /\ \E v \in Digits : is_valid(grid, find_empty(grid)[1], find_empty(grid)[2], v)
    /\ after = grid

\* C5: is_valid(grid, r, c, v) is true exactly when no other cell of row r,
\* column c or the box of (r, c) holds v, the value held by (r, c) itself
\* being ignored.
C5_IsValidIgnoresTarget ==
    call[1] = "is_valid" =>
        ret = NoOtherCellHolds(grid, call[2], call[3], call[4])

\* every clue of start_state holds its value in current
CluesKept ==
    \A i, j \in Idx : start_state[i][j] # 0 => current[i][j] = start_state[i][j]

\* C6: in the session every cell that is non-empty in start_state holds the
\* same value in current after any sequence of commands, and start_state and
\* solution change only on "new".
C6_CluesReadOnly ==
    /\ [] CluesKept
    /\ [][(start_state' # start_state \/ solution' # solution) => cmd' = "new"]_vars

\* a move aimed at a clue cell was turned down
C6_Witness ==
    /\ cmd = "move"
    /\ out = "That cell is fixed in the puzzle and cannot be changed."
    /\ CluesKept

\* C7: on a grid whose filled cells break no rule, for every order of the
\* candidates, solve_backtrack returns True exactly when the grid has a valid
\* completion, and then leaves it complete, board_valid and equal to the
\* input on every cell that was non-empty.
C7_SolveFindsCompletion ==
    (call[1] = "solve_backtrack" /\ board_valid(grid)) =>
        /\ ret = (Completions(grid) # {})
        /\ ret => /\ board_complete(after) /\ board_valid(after)
                  /\ \A i, j \in Idx : grid[i][j] # 0 => after[i][j] = grid[i][j]

\* solve_backtrack filled a grid that had ten cells empty and more than one
\* completion
C7_Witness ==
    /\ call[1] = "solve_backtrack" /\ ret = TRUE
    /\ board_valid(grid)
    /\ Empties(grid) >= 10
    /\ Cardinality(Completions(grid)) >= 2
    /\ after \in Completions(grid)

\* C8 as stated: in every reachable state of the session the current board
\* has no rule violation.
C8_CurrentAlwaysValid == board_valid(current)

\* C8, amended: the commands other than hint keep a board free of rule
\* violations: reset, solve and new always leave one, check, help, quit and
\* an unrecognized command leave current as it is, and a move applied to a
\* board without violations leaves it without violations.
C8_ValidUnlessHint ==
    /\ [](cmd \in {"start", "reset", "solve", "new"} => board_valid(current))
    /\ [][/\ cmd' \in {"check", "help", "quit", "other"} => current' = current
          /\ (cmd' = "move" /\ current' # current /\ board_valid(current))
                => board_valid(current')]_vars

\* a move was applied that is_valid accepted and that differs from the
\* solution: the board is without violations, and a hint can now add one
C8_Witness ==
    /\ cmd = "move" /\ out = ""
    /\ board_valid(current)
    /\ \E i, j \in Idx : current[i][j] # 0 /\ current[i][j] # solution[i][j]

\* C9: generate_puzzle(removals=6) returns a puzzle with exactly six empty
\* cells for every solved grid and every removal order: the loop does not run
\* out of cells before six removals are accepted and accepts no more than six.
C9_SixRemoved ==
    /\ pc \in {"loop", "done"} =>
          /\ Empties(puzzle) = removed
          /\ removed <= removals
    /\ pc = "done" => Empties(puzzle) = SessionRemovals

\* the loop ended with six cells emptied after putting at least one back
C9_Witness ==
    /\ pc = "done"
    /\ removed = SessionRemovals
    /\ Len(cells) < 16 - SessionRemovals

\* C10: in every reachable state of the session the win test holds exactly
\* when current is complete and board_valid.
C10_WinIffCompleteValid ==
    Won <=> (board_complete(current) /\ board_valid(current))

\* the player's own move completed the board and won
C10_Witness ==
    /\ cmd = "move" /\ out = ""
    /\ Won
    /\ current # start_state
====
